---- MODULE Spec2Model ----
(***************************************************************************)
(* Model of code/01_survival_analysis.py: a top-to-bottom script that      *)
(* generates a synthetic user table, fits Kaplan-Meier estimators, runs    *)
(* log-rank tests, fits a Cox model, saves four charts and writes a        *)
(* summary report.  One action per block of the script; an uncaught        *)
(* exception ends the run (pc = "aborted").                                *)
(*                                                                         *)
(* Real numbers are exact rationals [num, den].  The columns user_id,      *)
(* signup_date, user_type, avg_score and last_active_date take no part in  *)
(* any statistic modelled here and are left out of the record.             *)
(***************************************************************************)
EXTENDS Integers, Sequences, FiniteSets, TLC

VARIABLES pc, users_retention, files, console, kmf, logrank, cph,
          summary_text, error, log

vars == <<pc, users_retention, files, console, kmf, logrank, cph,
          summary_text, error, log>>

(* ---------------------------- constants -------------------------------- *)

\* population size (1500 in the script, scaled down for checking)
n_users == 3

\* baseline hazard 0.015 = 15/1000
baseline_hazard_milli == 15

\* premium multiplier 0.43 = 43/100
premium_factor_pct == 43

\* activity multiplier 0.32 = 32/100
activity_factor_pct == 32

\* num_interviews >= 5 is "high activity"
activity_threshold == 5

study_end == 120

\* p < 0.05 on one degree of freedom <=> statistic > 3.841 = 3841/1000
chi2_critical_milli == 3841

Tiers == {"free", "premium"}

\* draws of np.random.poisson(5): both sides of the activity threshold
InterviewDraws == {activity_threshold - 1, activity_threshold}

\* draws of np.random.exponential: -log(1-U) with U in [0,1) can be 0;
\* one value inside the study, the horizon itself, one value past it
ChurnDraws == {0, 50, study_end, study_end + 10}

Checkpoints == {30, 60, 90, 120}

Groups == {"Overall", "Free", "Premium", "Low Activity", "High Activity"}

Tests == {"tier", "activity"}

CsvPath == "data/user_retention.csv"
PngOverall == "visualizations/km_overall_python.png"
PngSubscription == "visualizations/km_by_subscription_python.png"
PngActivity == "visualizations/km_by_activity_python.png"
PngHazard == "visualizations/cox_hazard_ratios_python.png"
ReportPath == "reports/survival_analysis_summary.txt"

\* the six writes in script order
OutputOrder ==
  <<CsvPath, PngOverall, PngSubscription, PngActivity, PngHazard, ReportPath>>

(* --------------------------- control flow ------------------------------ *)

\* the blocks of the script in textual order
Pipeline ==
  <<"generate", "save_csv", "km_overall", "km_tier", "logrank_tier",
    "km_activity", "logrank_activity", "cox_fit", "plot_overall",
    "plot_subscription", "plot_activity", "plot_hazard", "summary",
    "write_report", "finish", "done">>

IndexOf(s) == CHOOSE i \in 1..Len(Pipeline) : Pipeline[i] = s

NextStageReportFirst(s) ==
  IF s = "cox_fit" THEN "summary"
  ELSE IF s = "write_report" THEN "plot_overall"
  ELSE IF s = "plot_hazard" THEN "finish"
  ELSE Pipeline[IndexOf(s) + 1]

\* straight-line code: the block after s is the next one in the text
NextStage(s) == Pipeline[IndexOf(s) + 1]

(* ----------------------------- rationals ------------------------------- *)

Rat(n, d) == [num |-> n, den |-> d]
RatEq(a, b) == a.num * b.den = b.num * a.den
RatLe(a, b) == a.num * b.den <= b.num * a.den
RatLt(a, b) == a.num * b.den < b.num * a.den

RECURSIVE Gcd(_, _)
Gcd(a, b) == IF b = 0 THEN a ELSE Gcd(b, a % b)

\* the same number in lowest terms
Reduce(a) == Rat(a.num \div Gcd(a.num, a.den), a.den \div Gcd(a.num, a.den))

\* h *= pct/100
ScaleBy(h, pct) == Reduce(Rat(h.num * pct, h.den * 100))

(* --------------------------- 1. generator ------------------------------ *)

BaselineHazardThresholdOff(tier, k) ==
  LET h0 == Rat(baseline_hazard_milli, 1000)
      h1 == IF tier = "premium" THEN ScaleBy(h0, premium_factor_pct) ELSE h0
  IN  IF k > activity_threshold THEN ScaleBy(h1, activity_factor_pct) ELSE h1

\* lines 45-51
BaselineHazard(tier, k) ==
  LET h0 == Rat(baseline_hazard_milli, 1000)
      h1 == IF tier = "premium" THEN ScaleBy(h0, premium_factor_pct) ELSE h0
  IN  IF k >= activity_threshold THEN ScaleBy(h1, activity_factor_pct) ELSE h1

ChurnedStrict(ttc) == IF ttc < study_end THEN 1 ELSE 0

\* line 58
Churned(ttc) == IF ttc <= study_end THEN 1 ELSE 0

\* line 59
TimeObserved(ttc) == IF ttc <= study_end THEN ttc ELSE study_end

Draws ==
  [subscription_tier : Tiers, num_interviews : InterviewDraws,
   time_to_churn : ChurnDraws]

MakeRecord(d) ==
  [subscription_tier |-> d.subscription_tier,
   num_interviews    |-> d.num_interviews,
   baseline_hazard   |-> BaselineHazard(d.subscription_tier, d.num_interviews),
   time_to_churn     |-> d.time_to_churn,
   churned           |-> Churned(d.time_to_churn),
   time_observed     |-> TimeObserved(d.time_to_churn)]

(* ------------------------ 2. Kaplan-Meier ------------------------------ *)

\* rows selected by a boolean mask keep their order
free_users == SelectSeq(users_retention, LAMBDA r : r.subscription_tier = "free")
premium_users ==
  SelectSeq(users_retention, LAMBDA r : r.subscription_tier = "premium")
low_activity ==
  SelectSeq(users_retention, LAMBDA r : ~(r.num_interviews >= activity_threshold))
high_activity ==
  SelectSeq(users_retention, LAMBDA r : r.num_interviews >= activity_threshold)

AtRiskAfter(data, t) ==
  Cardinality({i \in DOMAIN data : data[i].time_observed > t})

\* subjects still under observation just before t
AtRisk(data, t) ==
  Cardinality({i \in DOMAIN data : data[i].time_observed >= t})

\* churn events at exactly t
Observed(data, t) ==
  Cardinality({i \in DOMAIN data :
                 data[i].time_observed = t /\ data[i].churned = 1})

EventTimes(data) ==
  {data[i].time_observed : i \in {j \in DOMAIN data : data[j].churned = 1}}

\* the fitted timeline always starts at 0
Timeline(data) == {0} \cup {data[i].time_observed : i \in DOMAIN data}

RECURSIVE SurvivalProductAfter(_, _)
SurvivalProductAfter(data, ts) ==
  IF ts = {} THEN Rat(1, 1)
  ELSE LET t    == CHOOSE x \in ts : TRUE
           rest == SurvivalProductAfter(data, ts \ {t})
       IN  Rat(rest.num * (AtRiskAfter(data, t) - Observed(data, t)),
               rest.den * AtRiskAfter(data, t))

RECURSIVE SurvivalProduct(_, _)
SurvivalProduct(data, ts) ==
  IF ts = {} THEN Rat(1, 1)
  ELSE LET t    == CHOOSE x \in ts : TRUE
           rest == SurvivalProduct(data, ts \ {t})
       IN  Rat(rest.num * (AtRisk(data, t) - Observed(data, t)),
               rest.den * AtRisk(data, t))

SurvivalAtStrict(data, t) ==
  SurvivalProduct(data, {x \in EventTimes(data) : x < t})

\* product-limit estimate S(t) = prod_{t_j <= t} (1 - d_j / n_j)
SurvivalAt(data, t) ==
  SurvivalProduct(data, {x \in EventTimes(data) : x <= t})

\* median_survival_time_: first time with S(t) <= 0.5, inf if there is none
Median(sf) ==
  LET crossed == {t \in DOMAIN sf : RatLe(sf[t], Rat(1, 2))}
  IN  IF crossed = {} THEN [finite |-> FALSE, value |-> 0]
      ELSE [finite |-> TRUE,
            value  |-> CHOOSE t \in crossed : \A u \in crossed : t <= u]

\* KaplanMeierFitter().fit(durations, event_observed): the fitter keeps its
\* inputs, the survival function over the timeline and the median
KaplanMeierFit(data) ==
  LET sf == [t \in Timeline(data) |-> SurvivalAt(data, t)]
  IN  [fitted |-> TRUE,
       durations |-> data,
       survival_function_ |-> sf,
       median_survival_time_ |-> Median(sf)]

Unfitted ==
  [fitted |-> FALSE,
   durations |-> <<>>,
   survival_function_ |-> [t \in {0} |-> Rat(1, 1)],
   median_survival_time_ |-> [finite |-> FALSE, value |-> 0]]

\* step function: the value at the last timeline point not after t
survival_function_at_times(fit, t) ==
  LET before == {u \in DOMAIN fit.survival_function_ : u <= t}
  IN  fit.survival_function_[CHOOSE u \in before : \A w \in before : w <= u]

FmtClamped(m) == IF m.finite THEN ToString(m.value) ELSE ToString(study_end)

\* f"{x:.1f}" of a float: digits, or "inf" for np.inf
Fmt(m) == IF m.finite THEN ToString(m.value) ELSE "inf"

(* --------------------------- log-rank test ----------------------------- *)

RECURSIVE Fact(_)
Fact(n) == IF n <= 1 THEN 1 ELSE n * Fact(n - 1)

RECURSIVE SumOver(_, _)
SumOver(f, S) ==
  IF S = {} THEN 0
  ELSE LET t == CHOOSE x \in S : TRUE IN f[t] + SumOver(f, S \ {t})

\* Two-sample log-rank statistic (O_A - E_A)^2 / V over the pooled event
\* times; E_A is carried times F and V times F^3 (F = n!) so that every
\* term is an integer.  A zero variance gives statistic 0 (pseudo-inverse).
LogrankTest(A, B) ==
  LET P   == A \o B
      F   == Fact(Len(P))
      ts  == EventTimes(P)
      e   == [t \in ts |-> Observed(P, t) * AtRisk(A, t) * (F \div AtRisk(P, t))]
      v   == [t \in ts |->
                LET n == AtRisk(P, t)
                    d == Observed(P, t)
                IN  IF n > 1
                    THEN d * AtRisk(A, t) * AtRisk(B, t) * (n - d)
                           * ((F * F * F) \div (n * n * (n - 1)))
                    ELSE 0]
      oa  == SumOver([t \in ts |-> Observed(A, t)], ts)
      z   == oa * F - SumOver(e, ts)
      var == SumOver(v, ts)
  IN  [fitted |-> TRUE,
       test_statistic |-> IF var = 0 THEN Rat(0, 1) ELSE Rat(z * z * F, var)]

\* logrank_result.p_value < 0.05
PValueBelowAlpha(res) == RatLt(Rat(chi2_critical_milli, 1000), res.test_statistic)

\* lines 118, 153
Verdict(res) == IF PValueBelowAlpha(res) THEN "SIGNIFICANT" ELSE "NOT SIGNIFICANT"

NoResult == [fitted |-> FALSE, test_statistic |-> Rat(0, 1)]

(* ------------------------------ state ---------------------------------- *)

NoException == <<>>

Init ==
  /\ pc = "generate"
  /\ users_retention = <<>>
  /\ files = <<>>
  /\ console = [median  |-> [g \in Groups |-> ""],
                verdict |-> [t \in Tests |-> ""],
                hazard_ratios |-> FALSE,
                summary |-> FALSE,
                banner  |-> FALSE]
  /\ kmf = [g \in Groups |-> Unfitted]
  /\ logrank = [t \in Tests |-> NoResult]
  /\ cph = "unfit"
  /\ summary_text = [built   |-> FALSE,
                     median  |-> [g \in Groups |-> ""],
                     verdict |-> [t \in Tests |-> ""],
                     p_from  |-> [t \in Tests |-> NoResult],
                     hr_from |-> "unfit"]
  /\ error = NoException
  /\ log = <<>>

\* an uncaught exception ends the script where it is raised
Raise(exc) ==
  /\ pc' = "aborted"
  /\ error' = exc
  /\ UNCHANGED <<users_retention, files, console, kmf, logrank, cph,
                 summary_text, log>>

\* the block s ran to its end
Advance(s) ==
  /\ pc' = NextStage(s)
  /\ log' = Append(log, s)
  /\ UNCHANGED error

WriteFileSwallowed(s, path) ==
  \/ /\ files' = Append(files, path)
     /\ Advance(s)
     /\ UNCHANGED <<users_retention, console, kmf, logrank, cph, summary_text>>
  \/ /\ Advance(s)
     /\ UNCHANGED <<users_retention, files, console, kmf, logrank, cph,
                    summary_text>>

\* to_csv / savefig / open(..., 'w'): the file is written, or the call
\* raises OSError (e.g. the directory is missing) and nothing catches it
WriteFile(s, path) ==
  \/ /\ files' = Append(files, path)
     /\ Advance(s)
     /\ UNCHANGED <<users_retention, console, kmf, logrank, cph, summary_text>>
  \/ Raise(<<"OSError", path>>)

(* ----------------------------- actions --------------------------------- *)

\* lines 29-66
Generate ==
  /\ pc = "generate"
  /\ \E draws \in [1..n_users -> Draws] :
       users_retention' = [i \in 1..n_users |-> MakeRecord(draws[i])]
  /\ Advance("generate")
  /\ UNCHANGED <<files, console, kmf, logrank, cph, summary_text>>

\* line 69
SaveCsv ==
  /\ pc = "save_csv"
  /\ WriteFile("save_csv", CsvPath)

\* lines 79-87
KMOverall ==
  /\ pc = "km_overall"
  /\ kmf' = [kmf EXCEPT !["Overall"] = KaplanMeierFit(users_retention)]
  /\ console' = [console EXCEPT
                   !.median["Overall"] = Fmt(kmf'["Overall"].median_survival_time_)]
  /\ Advance("km_overall")
  /\ UNCHANGED <<users_retention, files, logrank, cph, summary_text>>

\* fit two subgroup estimators and print their medians; fitting an empty
\* subgroup raises inside the library
FitPair(s, ga, a, gb, b) ==
  IF a = <<>> \/ b = <<>>
  THEN Raise(<<"ValueError", s>>)
  ELSE /\ kmf' = [kmf EXCEPT ![ga] = KaplanMeierFit(a), ![gb] = KaplanMeierFit(b)]
       /\ console' = [console EXCEPT
                        !.median[ga] = Fmt(kmf'[ga].median_survival_time_),
                        !.median[gb] = Fmt(kmf'[gb].median_survival_time_)]
       /\ Advance(s)
       /\ UNCHANGED <<users_retention, files, logrank, cph, summary_text>>

\* lines 92-107
KMTier ==
  /\ pc = "km_tier"
  /\ FitPair("km_tier", "Free", free_users, "Premium", premium_users)

RunLogrank(s, test, a, b) ==
  /\ logrank' = [logrank EXCEPT ![test] = LogrankTest(a, b)]
  /\ console' = [console EXCEPT !.verdict[test] = Verdict(LogrankTest(a, b))]
  /\ Advance(s)
  /\ UNCHANGED <<users_retention, files, kmf, cph, summary_text>>

\* lines 110-118
LogrankTier ==
  /\ pc = "logrank_tier"
  /\ RunLogrank("logrank_tier", "tier", free_users, premium_users)

\* lines 121-142
KMActivity ==
  /\ pc = "km_activity"
  /\ FitPair("km_activity", "Low Activity", low_activity,
             "High Activity", high_activity)

\* lines 145-153
LogrankActivity ==
  /\ pc = "logrank_activity"
  /\ RunLogrank("logrank_activity", "activity", low_activity, high_activity)

\* lines 163-184.  Newton-Raphson either converges, or stops without
\* converging and emits a ConvergenceWarning (discarded by the 'ignore'
\* filter of line 13, so the script goes on), or raises ConvergenceError.
FitOutcomes == {"converged", "nonconverged"}

CoxFit ==
  /\ pc = "cox_fit"
  /\ \/ /\ \E o \in FitOutcomes : cph' = o
        /\ console' = [console EXCEPT !.hazard_ratios = TRUE]
        /\ Advance("cox_fit")
        /\ UNCHANGED <<users_retention, files, kmf, logrank, summary_text>>
     \/ Raise(<<"ConvergenceError", "cox_fit">>)

\* lines 194-205
PlotOverall ==
  /\ pc = "plot_overall"
  /\ WriteFile("plot_overall", PngOverall)

\* lines 208-220
PlotSubscription ==
  /\ pc = "plot_subscription"
  /\ WriteFile("plot_subscription", PngSubscription)

\* lines 223-235
PlotActivity ==
  /\ pc = "plot_activity"
  /\ WriteFile("plot_activity", PngActivity)

\* lines 238-244
PlotHazard ==
  /\ pc = "plot_hazard"
  /\ WriteFile("plot_hazard", PngHazard)

\* lines 253-314: medians, p-values and hazard ratios are interpolated;
\* "(HIGHLY SIGNIFICANT)" and "p<0.001" are literal text of the template
BuildSummary ==
  /\ pc = "summary"
  /\ summary_text' =
       [built   |-> TRUE,
        median  |-> [g \in Groups |-> Fmt(kmf[g].median_survival_time_)],
        verdict |-> [t \in Tests |-> "HIGHLY SIGNIFICANT"],
        p_from  |-> logrank,
        hr_from |-> cph]
  /\ console' = [console EXCEPT !.summary = TRUE]
  /\ Advance("summary")
  /\ UNCHANGED <<users_retention, files, kmf, logrank, cph>>

\* lines 316-319
WriteReport ==
  /\ pc = "write_report"
  /\ WriteFile("write_report", ReportPath)

\* lines 321-327
Finish ==
  /\ pc = "finish"
  /\ console' = [console EXCEPT !.banner = TRUE]
  /\ Advance("finish")
  /\ UNCHANGED <<users_retention, files, kmf, logrank, cph, summary_text>>

Next ==
  \/ Generate
  \/ SaveCsv
  \/ KMOverall
  \/ KMTier
  \/ LogrankTier
  \/ KMActivity
  \/ LogrankActivity
  \/ CoxFit
  \/ PlotOverall
  \/ PlotSubscription
  \/ PlotActivity
  \/ PlotHazard
  \/ BuildSummary
  \/ WriteReport
  \/ Finish

Spec == Init /\ [][Next]_vars

(* ============================== claims ================================= *)

Min(a, b) == IF a <= b THEN a ELSE b

Fitted(g) == kmf[g].fitted

Prefix(s, t) == Len(s) <= Len(t) /\ s = SubSeq(t, 1, Len(s))

InFiles(path) == \E i \in DOMAIN files : files[i] = path

\* C1: in every stage after generation every record has
\* time_observed = min(time_to_churn, 120) <= 120 and churned = 1 exactly
\* when time_to_churn <= 120; a censored record has time_observed = 120.
C1_Censoring ==
  \A i \in DOMAIN users_retention :
    LET r == users_retention[i] IN
      /\ r.time_observed = Min(r.time_to_churn, 120)
      /\ r.time_observed <= 120
      /\ r.churned \in {0, 1}
      /\ (r.churned = 1) <=> (r.time_to_churn <= 120)
      /\ (r.time_to_churn = 120) => (r.churned = 1)
      /\ (r.churned = 0) => (r.time_observed = 120)

C1_Witness ==
  /\ pc = "done"
  /\ \E i \in DOMAIN users_retention :
       users_retention[i].time_to_churn = 120 /\ users_retention[i].churned = 1
  /\ \E i \in DOMAIN users_retention :
       users_retention[i].time_to_churn > 120 /\ users_retention[i].churned = 0

\* C2: a record's hazard is 0.015, times 0.43 exactly when the tier is
\* premium, times 0.32 exactly when num_interviews >= 5; so it is one of
\* four values, at most 0.015 and strictly positive.
C2_Hazard ==
  \A i \in DOMAIN users_retention :
    LET r  == users_retention[i]
        h  == r.baseline_hazard
        fp == IF r.subscription_tier = "premium" THEN 43 ELSE 100
        fa == IF r.num_interviews >= 5 THEN 32 ELSE 100
    IN  /\ RatEq(h, Rat(15 * fp * fa, 1000 * 100 * 100))
        /\ \E x \in {15 * 100 * 100, 15 * 43 * 100, 15 * 32 * 100, 15 * 43 * 32} :
             RatEq(h, Rat(x, 1000 * 100 * 100))
        /\ RatLe(h, Rat(15, 1000))
        /\ h.den > 0 /\ h.num > 0

C2_Witness ==
  /\ pc = "done"
  /\ \E i \in DOMAIN users_retention :
       /\ users_retention[i].subscription_tier = "premium"
       /\ users_retention[i].num_interviews = 5
       /\ RatEq(users_retention[i].baseline_hazard, Rat(20640, 10000000))
  /\ \E i \in DOMAIN users_retention :
       /\ users_retention[i].subscription_tier = "free"
       /\ users_retention[i].num_interviews = 4
       /\ RatEq(users_retention[i].baseline_hazard, Rat(15, 1000))

\* C3: a Cox fit that did not converge aborts the run: no hazard ratio is
\* printed, no hazard-ratio chart and no report is written, and the run
\* does not complete.
C3_NonConvergenceIsFatal ==
  (cph = "nonconverged") =>
    /\ pc = "aborted"
    /\ ~console.hazard_ratios
    /\ ~InFiles(PngHazard)
    /\ ~InFiles(ReportPath)
    /\ ~console.banner

NeverCrossesHalf(fit) ==
  \A t \in DOMAIN fit.survival_function_ :
    RatLt(Rat(1, 2), fit.survival_function_[t])

NoEvents(data) == \A i \in DOMAIN data : data[i].churned = 0

\* C4: for every fitted group with no churn event, or whose survival
\* estimate never falls to 0.5, the median is printed as "inf" on the
\* console and in the summary, never as a finite number.
C4_MedianUndefinedIsReported ==
  \A g \in Groups :
    (Fitted(g) /\ (NoEvents(kmf[g].durations) \/ NeverCrossesHalf(kmf[g]))) =>
      /\ console.median[g] = "inf"
      /\ summary_text.built => summary_text.median[g] = "inf"

C4_Witness ==
  /\ pc = "done"
  /\ NoEvents(kmf["Premium"].durations)
  /\ console.median["Premium"] = "inf"
  /\ summary_text.median["Premium"] = "inf"
  /\ ~NeverCrossesHalf(kmf["Free"])
  /\ summary_text.median["Free"] = "50"

FilesBefore(path) ==
  SubSeq(OutputOrder, 1,
         (CHOOSE i \in DOMAIN OutputOrder : OutputOrder[i] = path) - 1)

\* C5: a failed write aborts the run at that write: exactly the earlier
\* files exist, the banner is not printed; and the banner is printed only
\* when all six writes succeeded.
C5_WriteFailureAborts ==
  /\ (error # NoException /\ error[1] = "OSError") =>
       /\ pc = "aborted"
       /\ files = FilesBefore(error[2])
       /\ ~console.banner
       /\ (error[2] # ReportPath) => ~summary_text.built
       /\ (error[2] = CsvPath) => \A g \in Groups : ~Fitted(g)
  /\ console.banner => files = OutputOrder
  /\ (pc \notin {"aborted", "generate"}) =>
       files = SelectSeq(OutputOrder,
                 LAMBDA f : \E i \in DOMAIN log :
                   \/ log[i] = "save_csv" /\ f = CsvPath
                   \/ log[i] = "plot_overall" /\ f = PngOverall
                   \/ log[i] = "plot_subscription" /\ f = PngSubscription
                   \/ log[i] = "plot_activity" /\ f = PngActivity
                   \/ log[i] = "plot_hazard" /\ f = PngHazard
                   \/ log[i] = "write_report" /\ f = ReportPath)

C5_Witness ==
  /\ pc = "aborted"
  /\ error = <<"OSError", PngActivity>>
  /\ files = <<CsvPath, PngOverall, PngSubscription>>

\* C6: the verdict the report attaches to each log-rank test agrees with
\* the verdict printed on the console for that test.
C6_ReportVerdictMatchesConsole ==
  summary_text.built =>
    \A t \in Tests :
      (summary_text.verdict[t] = "HIGHLY SIGNIFICANT")
        <=> (console.verdict[t] = "SIGNIFICANT")

TimePoints(fit) == DOMAIN fit.survival_function_ \cup Checkpoints

\* C7: for every fitted group the survival estimate is non-increasing in
\* time and lies in [0,1] at every time, the checkpoints included.
C7_SurvivalMonotoneInUnit ==
  \A g \in Groups :
    Fitted(g) =>
      LET S == [t \in TimePoints(kmf[g]) |-> survival_function_at_times(kmf[g], t)]
      IN  /\ \A t \in DOMAIN S :
               S[t].den > 0 /\ 0 <= S[t].num /\ S[t].num <= S[t].den
          /\ \A t1, t2 \in DOMAIN S : t1 <= t2 => RatLe(S[t2], S[t1])

C7_Witness ==
  /\ pc = "done"
  /\ RatEq(survival_function_at_times(kmf["Overall"], 30), Rat(1, 1))
  /\ RatLt(survival_function_at_times(kmf["Overall"], 60),
           survival_function_at_times(kmf["Overall"], 30))
  /\ RatLt(survival_function_at_times(kmf["Overall"], 120),
           survival_function_at_times(kmf["Overall"], 90))

\* C8 as stated: for every fitted group the estimate at time 0 equals 1.
C8_SurvivalAtZeroIsOne ==
  \A g \in Groups :
    Fitted(g) => RatEq(survival_function_at_times(kmf[g], 0), Rat(1, 1))

ZeroTimeChurns(data) ==
  Cardinality({i \in DOMAIN data : data[i].time_to_churn = 0})

\* C8 amended: for every fitted group the estimate at time 0 is
\* 1 - d0/n, d0 the number of records whose time-to-churn is 0; it is 1
\* exactly when the group has no such record.
C8_SurvivalAtZero ==
  \A g \in Groups :
    Fitted(g) =>
      LET n  == Len(kmf[g].durations)
          d0 == ZeroTimeChurns(kmf[g].durations)
          s0 == survival_function_at_times(kmf[g], 0)
      IN  /\ RatEq(s0, Rat(n - d0, n))
          /\ RatEq(s0, Rat(1, 1)) <=> (d0 = 0)

C8_Witness ==
  /\ pc = "done"
  /\ ZeroTimeChurns(kmf["Free"].durations) > 0
  /\ RatLt(survival_function_at_times(kmf["Free"], 0), Rat(1, 1))
  /\ ZeroTimeChurns(kmf["Premium"].durations) = 0
  /\ RatEq(survival_function_at_times(kmf["Premium"], 0), Rat(1, 1))

\* C10: the blocks run once each in script order: the CSV is written
\* after the table is generated and before any estimator is fitted, the
\* Cox model is fitted after both log-rank tests, the charts are saved
\* after the Cox fit in the order overall, subscription, activity, hazard
\* ratios, and the report is written last.
C10_StageOrder ==
  /\ Prefix(log, Pipeline)
  /\ Prefix(files, OutputOrder)
  /\ InFiles(CsvPath) => Len(users_retention) = n_users
  /\ (\E g \in Groups : Fitted(g)) => InFiles(CsvPath)
  /\ (cph # "unfit") => \A t \in Tests : logrank[t].fitted
  /\ InFiles(PngOverall) => cph # "unfit"
  /\ summary_text.built => InFiles(PngHazard)
  /\ InFiles(ReportPath) => files = OutputOrder /\ summary_text.built

C10_Witness ==
  /\ pc = "done"
  /\ files = OutputOrder
  /\ Len(log) = Len(Pipeline) - 1

====
